---------------------------- MODULE Spec2Model ----------------------------
(***************************************************************************)
(* Environment-layered configuration resolution of the PrimePass backend.  *)
(*                                                                         *)
(* One process start: the Celery bootstrap binds the settings selector     *)
(* (celery.py), the selected settings module is imported (base.py, then    *)
(* development.py or production.py on top of it, section by section), the  *)
(* resolved module namespace is handed to consumers, the beat schedule is  *)
(* declared and the route table is assembled (urls.py).  A process may be  *)
(* started again with the same environment bindings.                       *)
(*                                                                         *)
(* Environment bindings are a partial function from names to strings: a    *)
(* name outside the domain is an absent binding.                           *)
(***************************************************************************)
EXTENDS Integers, Sequences, FiniteSets, TLC

VARIABLES
    env,            \* environment bindings: [subset of names -> strings]
    selector,       \* DJANGO_SETTINGS_MODULE as the process is started:
                    \* <<>> when unbound, <<m>> when bound to m
    module,         \* os.environ['DJANGO_SETTINGS_MODULE'] inside the process
    dockerenv,      \* os.path.exists('/.dockerenv')
    testMode,       \* 'test' in sys.argv or 'pytest' in sys.modules
    pc,             \* position of the process start
    settings,       \* namespace of the settings module being executed
    baseSet,        \* namespace of backend.settings.base once fully executed
    conf,           \* the ConfigurationSet handed to consumers (empty: none)
    error,          \* the exception that aborted the start (kind "" : none)
    sentryInit,     \* sentry_sdk.init has been called
    beat_schedule,  \* app.conf.beat_schedule
    urlpatterns,    \* backend.urls.urlpatterns
    restarted,      \* this is the second start of the process
    firstConf,      \* the ConfigurationSet of the first start
    firstLaunch     \* dockerenv and testMode of the first start

vars == <<env, selector, module, dockerenv, testMode, pc, settings, baseSet,
          conf, error, sentryInit, beat_schedule, urlpatterns, restarted,
          firstConf, firstLaunch>>

----------------------------------------------------------------------------
(* Bounds of the model.                                                    *)

\* how many bindings of an environment may differ from its profile
MaxChanges == 1

----------------------------------------------------------------------------
(* Generic helpers on finite maps.                                         *)

Empty == <<>>

\* b's entries over a's: dict(a); a.update(b)
Upd(a, b) == b @@ a

Has(m, k) == k \in DOMAIN m

----------------------------------------------------------------------------
(* python-decouple's config(name, default=..., cast=...), as the settings  *)
(* modules call it: the binding's string if present, else the default; an  *)
(* absent binding without default raises UndefinedValueError; the cast is  *)
(* applied to whichever value was taken and raises ValueError on failure.  *)
(* Strings are atoms here, so each conversion is given by what it returns  *)
(* on the strings the bindings range over.                                 *)

\* str.lower() on the binding values that are not already lower case
LowerTable == ("True" :> "true") @@ ("FALSE" :> "false")

Lower(v) == IF v \in DOMAIN LowerTable THEN LowerTable[v] ELSE v

TrueStrings == {"y", "yes", "t", "true", "on", "1"}

FalseStrings == {"n", "no", "f", "false", "off", "0"}

\* cast=bool accepts v ('' is False, else strtobool of the lowered string)
IsBool(v) == v = "" \/ Lower(v) \in TrueStrings \cup FalseStrings

cast_bool(v) == v # "" /\ Lower(v) \in TrueStrings

\* int(v) on the decimal literals the bindings range over
IntLiteral ==
    ("60" :> 60) @@ ("120" :> 120) @@ ("300" :> 300) @@ ("7200" :> 7200)
    @@ ("0" :> 0) @@ ("587" :> 587) @@ ("3600" :> 3600)

\* cast=int accepts v
IsInt(v) == v \in DOMAIN IntLiteral

cast_int(v) == IntLiteral[v]

\* cast=float accepts v: the int literals and these
IsFloat(v) == IsInt(v) \/ v \in {"0.1", "0.5", "1.0"}

\* [s.strip() for s in v.split(',')] on the strings that hold a comma or
\* blanks; any other string is its own single item ('' gives [''])
CsvTable ==
    ("localhost,127.0.0.1" :> <<"localhost", "127.0.0.1">>)
    @@ ("http://localhost:3000,http://127.0.0.1:3000" :>
            <<"http://localhost:3000", "http://127.0.0.1:3000">>)
    @@ ("example.com, api.example.com" :> <<"example.com", "api.example.com">>)
    @@ ("email,websocket" :> <<"email", "websocket">>)

cast_csv(v) == IF v \in DOMAIN CsvTable THEN CsvTable[v] ELSE <<v>>

\* a read: the binding's name, its cast and whether it has no default
Rd(name, cast, required) == [name |-> name, cast |-> cast, required |-> required]

NoError == [kind |-> "", key |-> ""]

\* (mutant) a value the cast rejects is dropped and the default is used
ReadErrorSwallowsCast(e, r) ==
    IF ~Has(e, r.name) /\ r.required
    THEN [kind |-> "UndefinedValueError", key |-> r.name]
    ELSE NoError

\* the exception config() raises for read r under bindings e, or NoError
ReadError(e, r) ==
    IF ~Has(e, r.name)
    THEN IF r.required
         THEN [kind |-> "UndefinedValueError", key |-> r.name]
         ELSE NoError
    ELSE IF \/ r.cast = "bool" /\ ~IsBool(e[r.name])
            \/ r.cast = "int" /\ ~IsInt(e[r.name])
            \/ r.cast = "float" /\ ~IsFloat(e[r.name])
         THEN [kind |-> "ValueError", key |-> r.name]
         ELSE NoError

\* the first exception raised by a section's reads, in statement order
RECURSIVE FirstError(_, _)
FirstError(e, reads) ==
    IF reads = <<>> THEN NoError
    ELSE IF ReadError(e, Head(reads)) # NoError THEN ReadError(e, Head(reads))
    ELSE FirstError(e, Tail(reads))

\* config(name, default=d) and its cast variants, for a read that succeeds
\* (mutant) the default of an absent binding is dropped
cfg_str_drops_default(e, name, d) == IF Has(e, name) THEN e[name] ELSE ""

cfg_str(e, name, d) == IF Has(e, name) THEN e[name] ELSE d

cfg_bool(e, name, d) == IF Has(e, name) THEN cast_bool(e[name]) ELSE d

\* (a present value that int() rejects makes the read raise; the value
\* given for it here is never assigned)
cfg_int(e, name, d) == IF Has(e, name) /\ IsInt(e[name]) THEN cast_int(e[name]) ELSE d

cfg_csv(e, name, d) == cast_csv(IF Has(e, name) THEN e[name] ELSE d)

----------------------------------------------------------------------------
(* backend/settings/base.py, section by section.  Each section has the     *)
(* list of its config() reads in statement order and the assignments it    *)
(* makes to the module namespace s under bindings e.  A timedelta is its   *)
(* number of seconds; None is the string "None".                           *)

DJANGO_APPS ==
    <<"django.contrib.admin", "django.contrib.auth",
      "django.contrib.contenttypes", "django.contrib.sessions",
      "django.contrib.messages", "django.contrib.staticfiles",
      "django.contrib.sites">>

THIRD_PARTY_APPS ==
    <<"rest_framework", "rest_framework_simplejwt", "drf_spectacular",
      "corsheaders", "django_filters", "phonenumber_field",
      "django_countries", "cachalot", "channels", "django_celery_beat",
      "django_celery_results", "health_check", "health_check.db",
      "health_check.cache", "health_check.storage", "axes",
      "django_ratelimit">>

LOCAL_APPS == <<>>

BASE_MIDDLEWARE ==
    <<"django.middleware.security.SecurityMiddleware",
      "whitenoise.middleware.WhiteNoiseMiddleware",
      "corsheaders.middleware.CorsMiddleware",
      "django.contrib.sessions.middleware.SessionMiddleware",
      "django.middleware.common.CommonMiddleware",
      "django.middleware.csrf.CsrfViewMiddleware",
      "django.contrib.auth.middleware.AuthenticationMiddleware",
      "django.contrib.messages.middleware.MessageMiddleware",
      "django.middleware.clickjacking.XFrameOptionsMiddleware",
      "axes.middleware.AxesMiddleware">>

BASE_TEMPLATES ==
    <<[BACKEND |-> "django.template.backends.django.DjangoTemplates",
       DIRS |-> <<"BASE_DIR/templates">>,
       APP_DIRS |-> TRUE,
       OPTIONS |-> [context_processors |->
           <<"django.template.context_processors.debug",
             "django.template.context_processors.request",
             "django.contrib.auth.context_processors.auth",
             "django.contrib.messages.context_processors.messages">>]]>>

BaseCoreReads ==
    <<Rd("SECRET_KEY", "str", FALSE), Rd("DEBUG", "bool", FALSE),
      Rd("ALLOWED_HOSTS", "csv", FALSE)>>

BaseCore(s, e) ==
    Upd(s,
        [SECRET_KEY |-> cfg_str(e, "SECRET_KEY",
                            "your-super-secret-key-change-this-in-production"),
         DEBUG |-> cfg_bool(e, "DEBUG", FALSE),
         ALLOWED_HOSTS |-> cfg_csv(e, "ALLOWED_HOSTS", "localhost,127.0.0.1"),
         INSTALLED_APPS |-> DJANGO_APPS \o THIRD_PARTY_APPS \o LOCAL_APPS,
         MIDDLEWARE |-> BASE_MIDDLEWARE,
         ROOT_URLCONF |-> "backend.urls",
         TEMPLATES |-> BASE_TEMPLATES,
         WSGI_APPLICATION |-> "backend.wsgi.application",
         ASGI_APPLICATION |-> "backend.asgi.application"])

BaseDataReads ==
    <<Rd("DATABASE_NAME", "str", FALSE), Rd("DATABASE_USER", "str", FALSE),
      Rd("DATABASE_PASSWORD", "str", FALSE), Rd("DATABASE_HOST", "str", FALSE),
      Rd("DATABASE_PORT", "str", FALSE), Rd("REDIS_URL", "str", FALSE),
      Rd("CACHE_TTL", "int", FALSE), Rd("SESSION_CACHE_TTL", "int", FALSE)>>

BaseData(s, e) ==
    Upd(s,
        [DATABASES |-> [default |->
            [ENGINE |-> "django.db.backends.postgresql",
             NAME |-> cfg_str(e, "DATABASE_NAME", "primepass_db"),
             USER |-> cfg_str(e, "DATABASE_USER", "primepass_user"),
             PASSWORD |-> cfg_str(e, "DATABASE_PASSWORD", "primepass_password"),
             HOST |-> cfg_str(e, "DATABASE_HOST", "localhost"),
             PORT |-> cfg_str(e, "DATABASE_PORT", "5432"),
             OPTIONS |-> [connect_timeout |-> 10]]],
         CACHES |-> [default |->
            [BACKEND |-> "django_redis.cache.RedisCache",
             LOCATION |-> cfg_str(e, "REDIS_URL", "redis://localhost:6379/0"),
             OPTIONS |->
                [CLIENT_CLASS |-> "django_redis.client.DefaultClient",
                 CONNECTION_POOL_KWARGS |->
                    [max_connections |-> 50, retry_on_timeout |-> TRUE],
                 SERIALIZER |-> "django_redis.serializers.json.JSONSerializer",
                 COMPRESSOR |-> "django_redis.compressors.zlib.ZlibCompressor"],
             KEY_PREFIX |-> "primepass",
             TIMEOUT |-> cfg_int(e, "CACHE_TTL", 3600)]],
         SESSION_ENGINE |-> "django.contrib.sessions.backends.cache",
         SESSION_CACHE_ALIAS |-> "default",
         SESSION_COOKIE_AGE |-> cfg_int(e, "SESSION_CACHE_TTL", 86400)])

BaseAuthReads ==
    <<Rd("JWT_ACCESS_TOKEN_LIFETIME", "int", FALSE),
      Rd("JWT_REFRESH_TOKEN_LIFETIME", "int", FALSE),
      Rd("JWT_ROTATE_REFRESH_TOKENS", "bool", FALSE),
      Rd("JWT_ALGORITHM", "str", FALSE), Rd("JWT_SECRET_KEY", "str", FALSE)>>

BaseAuth(s, e) ==
    Upd(s,
        [AUTHENTICATION_BACKENDS |->
            <<"axes.backends.AxesBackend",
              "django.contrib.auth.backends.ModelBackend">>,
         SITE_ID |-> 1,
         ACCOUNT_EMAIL_REQUIRED |-> TRUE,
         ACCOUNT_USERNAME_REQUIRED |-> FALSE,
         ACCOUNT_AUTHENTICATION_METHOD |-> "email",
         ACCOUNT_EMAIL_VERIFICATION |-> "mandatory",
         REST_FRAMEWORK |->
            [DEFAULT_AUTHENTICATION_CLASSES |->
                <<"rest_framework_simplejwt.authentication.JWTAuthentication",
                  "rest_framework.authentication.SessionAuthentication">>,
             DEFAULT_PERMISSION_CLASSES |->
                <<"rest_framework.permissions.IsAuthenticated">>,
             DEFAULT_RENDERER_CLASSES |->
                <<"djangorestframework_camel_case.render.CamelCaseJSONRenderer",
                  "rest_framework.renderers.JSONRenderer">>,
             DEFAULT_PAGINATION_CLASS |->
                "rest_framework.pagination.PageNumberPagination",
             PAGE_SIZE |-> 20,
             DEFAULT_SCHEMA_CLASS |-> "drf_spectacular.openapi.AutoSchema"],
         SIMPLE_JWT |->
            [ACCESS_TOKEN_LIFETIME |->
                cfg_int(e, "JWT_ACCESS_TOKEN_LIFETIME", 3600),
             REFRESH_TOKEN_LIFETIME |->
                cfg_int(e, "JWT_REFRESH_TOKEN_LIFETIME", 86400),
             ROTATE_REFRESH_TOKENS |->
                cfg_bool(e, "JWT_ROTATE_REFRESH_TOKENS", TRUE),
             BLACKLIST_AFTER_ROTATION |-> TRUE,
             UPDATE_LAST_LOGIN |-> TRUE,
             ALGORITHM |-> cfg_str(e, "JWT_ALGORITHM", "HS256"),
             SIGNING_KEY |-> cfg_str(e, "JWT_SECRET_KEY", s.SECRET_KEY),
             AUTH_HEADER_TYPES |-> <<"Bearer">>,
             AUTH_HEADER_NAME |-> "HTTP_AUTHORIZATION"]])

BaseServicesReads ==
    <<Rd("CORS_ALLOWED_ORIGINS", "csv", FALSE),
      Rd("CORS_ALLOW_CREDENTIALS", "bool", FALSE),
      Rd("CORS_ALLOW_ALL_ORIGINS", "bool", FALSE),
      Rd("REDIS_URL", "str", FALSE), Rd("STATIC_URL", "str", FALSE),
      Rd("MEDIA_URL", "str", FALSE)>>

BaseServices(s, e) ==
    Upd(s,
        [CORS_ALLOWED_ORIGINS |->
            cfg_csv(e, "CORS_ALLOWED_ORIGINS",
                    "http://localhost:3000,http://127.0.0.1:3000"),
         CORS_ALLOW_CREDENTIALS |-> cfg_bool(e, "CORS_ALLOW_CREDENTIALS", TRUE),
         CORS_ALLOW_ALL_ORIGINS |-> cfg_bool(e, "CORS_ALLOW_ALL_ORIGINS", FALSE),
         CHANNEL_LAYERS |-> [default |->
            [BACKEND |-> "channels_redis.core.RedisChannelLayer",
             CONFIG |->
                [hosts |-> <<cfg_str(e, "REDIS_URL", "redis://localhost:6379/0")>>,
                 capacity |-> 1500, expiry |-> 10]]],
         CELERY_BROKER_URL |-> cfg_str(e, "REDIS_URL", "redis://localhost:6379/0"),
         CELERY_RESULT_BACKEND |->
            cfg_str(e, "REDIS_URL", "redis://localhost:6379/0"),
         CELERY_ACCEPT_CONTENT |-> <<"json">>,
         CELERY_TASK_SERIALIZER |-> "json",
         CELERY_RESULT_SERIALIZER |-> "json",
         CELERY_TIMEZONE |-> "UTC",
         CELERY_BEAT_SCHEDULER |->
            "django_celery_beat.schedulers:DatabaseScheduler",
         LANGUAGE_CODE |-> "en-us",
         TIME_ZONE |-> "UTC",
         USE_I18N |-> TRUE,
         USE_TZ |-> TRUE,
         STATIC_URL |-> cfg_str(e, "STATIC_URL", "/static/"),
         STATIC_ROOT |-> "BASE_DIR/staticfiles",
         STATICFILES_DIRS |-> <<"BASE_DIR/static">>,
         MEDIA_URL |-> cfg_str(e, "MEDIA_URL", "/media/"),
         MEDIA_ROOT |-> "BASE_DIR/media",
         STATICFILES_STORAGE |->
            "whitenoise.storage.CompressedManifestStaticFilesStorage"])

BaseMiscReads ==
    <<Rd("SECURE_BROWSER_XSS_FILTER", "bool", FALSE),
      Rd("SECURE_CONTENT_TYPE_NOSNIFF", "bool", FALSE),
      Rd("X_FRAME_OPTIONS", "str", FALSE), Rd("LOG_LEVEL", "str", FALSE),
      Rd("LOG_FILE", "str", FALSE), Rd("EMAIL_BACKEND", "str", FALSE),
      Rd("EMAIL_HOST", "str", FALSE), Rd("EMAIL_PORT", "int", FALSE),
      Rd("EMAIL_USE_TLS", "bool", FALSE), Rd("EMAIL_HOST_USER", "str", FALSE),
      Rd("EMAIL_HOST_PASSWORD", "str", FALSE), Rd("FRONTEND_URL", "str", FALSE),
      Rd("API_VERSION", "str", FALSE), Rd("MAX_EVENTS_PER_USER", "int", FALSE),
      Rd("MAX_ATTENDEES_PER_EVENT", "int", FALSE),
      Rd("DEFAULT_EVENT_DURATION", "int", FALSE),
      Rd("ENABLE_NOTIFICATIONS", "bool", FALSE),
      Rd("NOTIFICATION_CHANNELS", "csv", FALSE),
      Rd("WEBSOCKET_URL", "str", FALSE)>>

\* LOGGING as declared by base.py for level lv and log file lf
BaseLogging(lv, lf) ==
    [version |-> 1,
     disable_existing_loggers |-> FALSE,
     formatters |-> <<"verbose", "simple">>,
     handlers |->
        [file |-> [level |-> lv, class |-> "logging.FileHandler",
                   filename |-> lf, formatter |-> "verbose"],
         console |-> [level |-> lv, class |-> "logging.StreamHandler",
                      formatter |-> "simple"]],
     root |-> [handlers |-> <<"console", "file">>, level |-> lv],
     loggers |->
        [django |-> [handlers |-> <<"console", "file">>, level |-> lv,
                     propagate |-> FALSE],
         primepass |-> [handlers |-> <<"console", "file">>, level |-> lv,
                        propagate |-> FALSE]]]

BaseMisc(s, e) ==
    Upd(s,
        [SECURE_BROWSER_XSS_FILTER |->
            cfg_bool(e, "SECURE_BROWSER_XSS_FILTER", TRUE),
         SECURE_CONTENT_TYPE_NOSNIFF |->
            cfg_bool(e, "SECURE_CONTENT_TYPE_NOSNIFF", TRUE),
         X_FRAME_OPTIONS |-> cfg_str(e, "X_FRAME_OPTIONS", "DENY"),
         AXES_FAILURE_LIMIT |-> 5,
         AXES_COOLOFF_TIME |-> 1,
         AXES_LOCK_OUT_BY_COMBINATION_USER_AND_IP |-> TRUE,
         LOGGING |-> BaseLogging(cfg_str(e, "LOG_LEVEL", "INFO"),
                                 cfg_str(e, "LOG_FILE", "logs/primepass.log")),
         SPECTACULAR_SETTINGS |->
            [TITLE |-> "PrimePass API", VERSION |-> "1.0.0",
             SERVE_INCLUDE_SCHEMA |-> FALSE, COMPONENT_SPLIT_REQUEST |-> TRUE,
             SCHEMA_PATH_PREFIX |-> "/api/v1/"],
         DEFAULT_AUTO_FIELD |-> "django.db.models.BigAutoField",
         EMAIL_BACKEND |-> cfg_str(e, "EMAIL_BACKEND",
                              "django.core.mail.backends.console.EmailBackend"),
         EMAIL_HOST |-> cfg_str(e, "EMAIL_HOST", "smtp.gmail.com"),
         EMAIL_PORT |-> cfg_int(e, "EMAIL_PORT", 587),
         EMAIL_USE_TLS |-> cfg_bool(e, "EMAIL_USE_TLS", TRUE),
         EMAIL_HOST_USER |-> cfg_str(e, "EMAIL_HOST_USER", ""),
         EMAIL_HOST_PASSWORD |-> cfg_str(e, "EMAIL_HOST_PASSWORD", ""),
         FRONTEND_URL |-> cfg_str(e, "FRONTEND_URL", "http://localhost:3000"),
         API_VERSION |-> cfg_str(e, "API_VERSION", "v1"),
         MAX_EVENTS_PER_USER |-> cfg_int(e, "MAX_EVENTS_PER_USER", 10),
         MAX_ATTENDEES_PER_EVENT |-> cfg_int(e, "MAX_ATTENDEES_PER_EVENT", 1000),
         DEFAULT_EVENT_DURATION |-> cfg_int(e, "DEFAULT_EVENT_DURATION", 3600),
         ENABLE_NOTIFICATIONS |-> cfg_bool(e, "ENABLE_NOTIFICATIONS", TRUE),
         NOTIFICATION_CHANNELS |->
            cfg_csv(e, "NOTIFICATION_CHANNELS", "email,websocket"),
         WEBSOCKET_URL |-> cfg_str(e, "WEBSOCKET_URL", "ws://localhost:8000/ws/")])

----------------------------------------------------------------------------
(* backend/settings/development.py: `from .base import *`, then these      *)
(* sections on the same namespace.                                         *)

DevDebugReads == <<Rd("ENABLE_SILK_PROFILING", "bool", FALSE)>>

DevDebug(s, e) ==
    Upd(s,
        [DEBUG |-> TRUE,
         ALLOWED_HOSTS |-> <<"localhost", "127.0.0.1", "0.0.0.0", "backend">>,
         INSTALLED_APPS |->
            s.INSTALLED_APPS \o <<"django_extensions", "debug_toolbar", "silk">>,
         MIDDLEWARE |->
            <<"debug_toolbar.middleware.DebugToolbarMiddleware",
              "silk.middleware.SilkyMiddleware">> \o s.MIDDLEWARE,
         INTERNAL_IPS |-> <<"127.0.0.1", "localhost">>,
         DEBUG_TOOLBAR_CONFIG |->
            [SHOW_TOOLBAR_CALLBACK |-> "lambda request: DEBUG",
             SHOW_COLLAPSED |-> TRUE],
         SILKY_PYTHON_PROFILER |-> cfg_bool(e, "ENABLE_SILK_PROFILING", FALSE),
         SILKY_PYTHON_PROFILER_BINARY |-> TRUE,
         SILKY_AUTHENTICATION |-> TRUE,
         SILKY_AUTHORISATION |-> TRUE])

\* USE_PGBOUNCER read and true (the read before it succeeded)
UsePgbouncer(e) == cfg_bool(e, "USE_PGBOUNCER", FALSE)

\* os.path.exists('/.dockerenv') or config('DOCKER_ENV', ...): the binding
\* is read only when the file is not there
DockerDetected(e, docker) == docker \/ cfg_bool(e, "DOCKER_ENV", FALSE)

DevDatabaseReads(e, docker) ==
    <<Rd("USE_PGBOUNCER", "bool", FALSE)>>
    \o (IF UsePgbouncer(e)
        THEN <<Rd("DATABASE_HOST", "str", FALSE), Rd("PGBOUNCER_PORT", "str", FALSE)>>
        ELSE <<>>)
    \o (IF docker THEN <<>> ELSE <<Rd("DOCKER_ENV", "bool", FALSE)>>)

\* (mutant) the Docker block is executed before the PgBouncer block
DevDatabasePgbouncerLast(s, e, docker) ==
    LET s1 == IF DockerDetected(e, docker)
              THEN [s EXCEPT !.DATABASES.default =
                      Upd(@, [HOST |-> "pgbouncer", PORT |-> "6432"])]
              ELSE s
    IN  IF UsePgbouncer(e)
        THEN [s1 EXCEPT !.DATABASES.default =
                Upd(@, [HOST |-> cfg_str(e, "DATABASE_HOST", "pgbouncer"),
                        PORT |-> cfg_str(e, "PGBOUNCER_PORT", "5432")])]
        ELSE s1

DevDatabase(s, e, docker) ==
    LET s1 == IF UsePgbouncer(e)
              THEN [s EXCEPT !.DATABASES.default =
                      Upd(@, [HOST |-> cfg_str(e, "DATABASE_HOST", "pgbouncer"),
                              PORT |-> cfg_str(e, "PGBOUNCER_PORT", "5432")])]
              ELSE s
    IN  IF DockerDetected(e, docker)
        THEN [s1 EXCEPT !.DATABASES.default =
                Upd(@, [HOST |-> "pgbouncer", PORT |-> "6432"])]
        ELSE s1

DevServicesReads == <<Rd("CELERY_EAGER", "bool", FALSE)>>

DevServices(s, e) ==
    LET caches == [s.CACHES EXCEPT !.default.OPTIONS =
                      Upd(@, [IGNORE_EXCEPTIONS |-> TRUE])]
        logging == [s.LOGGING EXCEPT
                      !.handlers.console.level = "DEBUG",
                      !.loggers = Upd(@, "django.db.backends" :>
                                     [handlers |-> <<"console">>,
                                      level |-> "DEBUG", propagate |-> FALSE])]
        templates == [s.TEMPLATES EXCEPT ![1].OPTIONS =
                        LET o == Upd(@, [debug |-> TRUE])
                        IN  IF Has(o, "loaders")
                            THEN Upd(o, [loaders |->
                                   <<"django.template.loaders.filesystem.Loader",
                                     "django.template.loaders.app_directories.Loader">>])
                            ELSE o]
    IN  Upd(s,
            [CACHES |-> caches,
             EMAIL_BACKEND |-> "django.core.mail.backends.console.EmailBackend",
             CORS_ALLOW_ALL_ORIGINS |-> TRUE,
             CORS_ALLOWED_ORIGINS |->
                <<"http://localhost:3000", "http://127.0.0.1:3000",
                  "http://localhost:5173", "http://127.0.0.1:5173">>,
             LOGGING |-> logging,
             SHELL_PLUS_PRINT_SQL |-> TRUE,
             SHELL_PLUS_PRINT_SQL_TRUNCATE |-> 1000,
             SECURE_SSL_REDIRECT |-> FALSE,
             SECURE_PROXY_SSL_HEADER |-> "None",
             SECURE_HSTS_SECONDS |-> 0,
             SECURE_HSTS_INCLUDE_SUBDOMAINS |-> FALSE,
             SECURE_HSTS_PRELOAD |-> FALSE,
             CELERY_TASK_ALWAYS_EAGER |-> cfg_bool(e, "CELERY_EAGER", FALSE),
             CELERY_TASK_EAGER_PROPAGATES |-> TRUE,
             QUERYCOUNT |->
                [THRESHOLDS |-> [MEDIUM |-> 50, HIGH |-> 200,
                                 MIN_TIME_TO_LOG |-> 0,
                                 MIN_QUERY_COUNT_TO_LOG |-> 5],
                 IGNORE_REQUEST_PATTERNS |-> <<"^/admin/", "^/static/", "^/media/">>,
                 IGNORE_SQL_PATTERNS |-> <<>>,
                 DISPLAY_DUPLICATES |-> 10],
             TEMPLATES |-> templates])

\* the testing overrides, applied when test is true
\* (mutant) the test database is merged into the entry instead of
\* replacing it
DevTestingMergesDatabase(s, test) ==
    IF test
    THEN Upd([s EXCEPT !.DATABASES.default =
                 Upd(@, [ENGINE |-> "django.db.backends.sqlite3",
                         NAME |-> ":memory:"])],
             [MIGRATION_MODULES |-> "DisableMigrations()",
              CACHES |-> [default |->
                 [BACKEND |-> "django.core.cache.backends.dummy.DummyCache"]],
              CELERY_TASK_ALWAYS_EAGER |-> TRUE,
              CELERY_TASK_EAGER_PROPAGATES |-> TRUE])
    ELSE s

DevTesting(s, test) ==
    IF test
    THEN Upd([s EXCEPT !.DATABASES.default =
                 [ENGINE |-> "django.db.backends.sqlite3", NAME |-> ":memory:"]],
             [MIGRATION_MODULES |-> "DisableMigrations()",
              CACHES |-> [default |->
                 [BACKEND |-> "django.core.cache.backends.dummy.DummyCache"]],
              CELERY_TASK_ALWAYS_EAGER |-> TRUE,
              CELERY_TASK_EAGER_PROPAGATES |-> TRUE])
    ELSE s

----------------------------------------------------------------------------
(* backend/settings/production.py: `from .base import *`, then these       *)
(* sections on the same namespace.                                         *)

ProdSecurityReads ==
    <<Rd("ALLOWED_HOSTS", "csv", TRUE), Rd("SECURE_SSL_REDIRECT", "bool", FALSE),
      Rd("SECURE_HSTS_SECONDS", "int", FALSE),
      Rd("SECURE_HSTS_INCLUDE_SUBDOMAINS", "bool", FALSE),
      Rd("SECURE_HSTS_PRELOAD", "bool", FALSE)>>

\* (mutant) production leaves DEBUG as base.py read it from the bindings
ProdSecurityKeepsDebug(s, e) ==
    Upd(s,
        [ALLOWED_HOSTS |-> cfg_csv(e, "ALLOWED_HOSTS", ""),
         SECURE_SSL_REDIRECT |-> cfg_bool(e, "SECURE_SSL_REDIRECT", TRUE),
         SECURE_PROXY_SSL_HEADER |-> <<"HTTP_X_FORWARDED_PROTO", "https">>,
         SECURE_HSTS_SECONDS |-> cfg_int(e, "SECURE_HSTS_SECONDS", 31536000),
         SECURE_HSTS_INCLUDE_SUBDOMAINS |->
            cfg_bool(e, "SECURE_HSTS_INCLUDE_SUBDOMAINS", TRUE),
         SECURE_HSTS_PRELOAD |-> cfg_bool(e, "SECURE_HSTS_PRELOAD", TRUE),
         SECURE_CONTENT_TYPE_NOSNIFF |-> TRUE,
         SECURE_BROWSER_XSS_FILTER |-> TRUE,
         SECURE_REFERRER_POLICY |-> "strict-origin-when-cross-origin",
         SESSION_COOKIE_SECURE |-> TRUE,
         SESSION_COOKIE_HTTPONLY |-> TRUE,
         SESSION_COOKIE_SAMESITE |-> "Lax",
         CSRF_COOKIE_SECURE |-> TRUE,
         CSRF_COOKIE_HTTPONLY |-> TRUE,
         CSRF_COOKIE_SAMESITE |-> "Lax"])

ProdSecurity(s, e) ==
    Upd(s,
        [DEBUG |-> FALSE,
         ALLOWED_HOSTS |-> cfg_csv(e, "ALLOWED_HOSTS", ""),
         SECURE_SSL_REDIRECT |-> cfg_bool(e, "SECURE_SSL_REDIRECT", TRUE),
         SECURE_PROXY_SSL_HEADER |-> <<"HTTP_X_FORWARDED_PROTO", "https">>,
         SECURE_HSTS_SECONDS |-> cfg_int(e, "SECURE_HSTS_SECONDS", 31536000),
         SECURE_HSTS_INCLUDE_SUBDOMAINS |->
            cfg_bool(e, "SECURE_HSTS_INCLUDE_SUBDOMAINS", TRUE),
         SECURE_HSTS_PRELOAD |-> cfg_bool(e, "SECURE_HSTS_PRELOAD", TRUE),
         SECURE_CONTENT_TYPE_NOSNIFF |-> TRUE,
         SECURE_BROWSER_XSS_FILTER |-> TRUE,
         SECURE_REFERRER_POLICY |-> "strict-origin-when-cross-origin",
         SESSION_COOKIE_SECURE |-> TRUE,
         SESSION_COOKIE_HTTPONLY |-> TRUE,
         SESSION_COOKIE_SAMESITE |-> "Lax",
         CSRF_COOKIE_SECURE |-> TRUE,
         CSRF_COOKIE_HTTPONLY |-> TRUE,
         CSRF_COOKIE_SAMESITE |-> "Lax"])

ProdDataReads ==
    <<Rd("DATABASE_HOST", "str", TRUE), Rd("PGBOUNCER_PORT", "str", FALSE)>>

\* (mutant) production takes over development's Docker detection: inside a
\* container the database host and port are pgbouncer's
ProdDataDockerAware(s, e) ==
    [s EXCEPT
        !.DATABASES.default =
            Upd(@, [HOST |-> IF dockerenv THEN "pgbouncer"
                             ELSE cfg_str(e, "DATABASE_HOST", ""),
                    PORT |-> IF dockerenv THEN "6432"
                             ELSE cfg_str(e, "PGBOUNCER_PORT", "6432"),
                    OPTIONS |-> Upd(@.OPTIONS,
                        [sslmode |-> "require",
                         connect_timeout |-> 10,
                         options |->
                            "-c default_transaction_isolation=read_committed"]),
                    CONN_MAX_AGE |-> 60]),
        !.CACHES.default.OPTIONS =
            Upd(@, [CONNECTION_POOL_KWARGS |->
                        [max_connections |-> 100, retry_on_timeout |-> TRUE,
                         socket_keepalive |-> TRUE,
                         socket_keepalive_options |-> <<>>],
                    IGNORE_EXCEPTIONS |-> FALSE])]

\* (mutant) production assigns the two OPTIONS maps instead of updating them
ProdDataReplacesOptions(s, e) ==
    [s EXCEPT
        !.DATABASES.default =
            Upd(@, [HOST |-> cfg_str(e, "DATABASE_HOST", ""),
                    PORT |-> cfg_str(e, "PGBOUNCER_PORT", "6432"),
                    OPTIONS |->
                        [sslmode |-> "require",
                         options |->
                            "-c default_transaction_isolation=read_committed"],
                    CONN_MAX_AGE |-> 60]),
        !.CACHES.default.OPTIONS =
            [CONNECTION_POOL_KWARGS |->
                [max_connections |-> 100, retry_on_timeout |-> TRUE,
                 socket_keepalive |-> TRUE,
                 socket_keepalive_options |-> <<>>],
             IGNORE_EXCEPTIONS |-> FALSE]]

ProdData(s, e) ==
    [s EXCEPT
        !.DATABASES.default =
            Upd(@, [HOST |-> cfg_str(e, "DATABASE_HOST", ""),
                    PORT |-> cfg_str(e, "PGBOUNCER_PORT", "6432"),
                    OPTIONS |-> Upd(@.OPTIONS,
                        [sslmode |-> "require",
                         connect_timeout |-> 10,
                         options |->
                            "-c default_transaction_isolation=read_committed"]),
                    CONN_MAX_AGE |-> 60]),
        !.CACHES.default.OPTIONS =
            Upd(@, [CONNECTION_POOL_KWARGS |->
                        [max_connections |-> 100, retry_on_timeout |-> TRUE,
                         socket_keepalive |-> TRUE,
                         socket_keepalive_options |-> <<>>],
                    IGNORE_EXCEPTIONS |-> FALSE])]

\* USE_S3 read and true
UseS3(e) == cfg_bool(e, "USE_S3", FALSE)

\* (mutant) the S3 credentials are read with a default
ProdStorageReadsDefaulted(e) ==
    <<Rd("USE_S3", "bool", FALSE)>>
    \o (IF UseS3(e)
        THEN <<Rd("AWS_ACCESS_KEY_ID", "str", FALSE),
               Rd("AWS_SECRET_ACCESS_KEY", "str", FALSE),
               Rd("AWS_STORAGE_BUCKET_NAME", "str", TRUE),
               Rd("AWS_S3_REGION_NAME", "str", FALSE),
               Rd("AWS_S3_CUSTOM_DOMAIN", "str", FALSE)>>
        ELSE <<>>)

ProdStorageReads(e) ==
    <<Rd("USE_S3", "bool", FALSE)>>
    \o (IF UseS3(e)
        THEN <<Rd("AWS_ACCESS_KEY_ID", "str", TRUE),
               Rd("AWS_SECRET_ACCESS_KEY", "str", TRUE),
               Rd("AWS_STORAGE_BUCKET_NAME", "str", TRUE),
               Rd("AWS_S3_REGION_NAME", "str", FALSE),
               Rd("AWS_S3_CUSTOM_DOMAIN", "str", FALSE)>>
        ELSE <<>>)

\* AWS_S3_CUSTOM_DOMAIN or f"{AWS_STORAGE_BUCKET_NAME}.s3.amazonaws.com"
S3Host(domain, bucket) ==
    IF domain # "None" /\ domain # "" THEN domain
    ELSE bucket \o ".s3.amazonaws.com"

ProdStorage(s, e) ==
    IF UseS3(e)
    THEN LET domain == cfg_str(e, "AWS_S3_CUSTOM_DOMAIN", "None")
             bucket == cfg_str(e, "AWS_STORAGE_BUCKET_NAME", "")
         IN  Upd(s,
                [AWS_ACCESS_KEY_ID |-> cfg_str(e, "AWS_ACCESS_KEY_ID", ""),
                 AWS_SECRET_ACCESS_KEY |-> cfg_str(e, "AWS_SECRET_ACCESS_KEY", ""),
                 AWS_STORAGE_BUCKET_NAME |-> bucket,
                 AWS_S3_REGION_NAME |-> cfg_str(e, "AWS_S3_REGION_NAME", "us-east-1"),
                 AWS_S3_CUSTOM_DOMAIN |-> domain,
                 AWS_DEFAULT_ACL |-> "None",
                 AWS_S3_OBJECT_PARAMETERS |-> [CacheControl |-> "max-age=86400"],
                 STATICFILES_STORAGE |-> "storages.backends.s3boto3.S3Boto3Storage",
                 STATIC_URL |-> "https://" \o S3Host(domain, bucket) \o "/static/",
                 DEFAULT_FILE_STORAGE |-> "storages.backends.s3boto3.S3Boto3Storage",
                 MEDIA_URL |-> "https://" \o S3Host(domain, bucket) \o "/media/"])
    ELSE s

ProdMailReads ==
    <<Rd("SENDGRID_API_KEY", "str", FALSE), Rd("DEFAULT_FROM_EMAIL", "str", FALSE),
      Rd("SERVER_EMAIL", "str", FALSE)>>

PROD_LOGGING ==
    [version |-> 1,
     disable_existing_loggers |-> FALSE,
     formatters |-> <<"verbose", "json">>,
     handlers |->
        [file |-> [level |-> "INFO",
                   class |-> "logging.handlers.RotatingFileHandler",
                   filename |-> "/var/log/primepass/primepass.log",
                   maxBytes |-> 1024 * 1024 * 50, backupCount |-> 5,
                   formatter |-> "json"],
         console |-> [level |-> "INFO", class |-> "logging.StreamHandler",
                      formatter |-> "json"],
         sentry |-> [level |-> "ERROR",
                     class |-> "sentry_sdk.integrations.logging.SentryHandler"]],
     root |-> [handlers |-> <<"console", "file", "sentry">>, level |-> "INFO"],
     loggers |->
        [django |-> [handlers |-> <<"console", "file", "sentry">>,
                     level |-> "INFO", propagate |-> FALSE],
         primepass |-> [handlers |-> <<"console", "file", "sentry">>,
                        level |-> "INFO", propagate |-> FALSE],
         celery |-> [handlers |-> <<"console", "file", "sentry">>,
                     level |-> "INFO", propagate |-> FALSE]]]

\* (mutant) production reads REDIS_URL again, with another default, into
\* the broker URL
ProdMailRebindsBroker(s, e) ==
    Upd(s,
        [EMAIL_BACKEND |-> "anymail.backends.sendgrid.EmailBackend",
         ANYMAIL |-> [SENDGRID_API_KEY |-> cfg_str(e, "SENDGRID_API_KEY", "")],
         DEFAULT_FROM_EMAIL |->
            cfg_str(e, "DEFAULT_FROM_EMAIL", "noreply@primepass.com"),
         SERVER_EMAIL |-> cfg_str(e, "SERVER_EMAIL", "server@primepass.com"),
         LOGGING |-> PROD_LOGGING,
         CELERY_BROKER_URL |-> cfg_str(e, "REDIS_URL", "redis://redis:6379/0")])

ProdMail(s, e) ==
    Upd(s,
        [EMAIL_BACKEND |-> "anymail.backends.sendgrid.EmailBackend",
         ANYMAIL |-> [SENDGRID_API_KEY |-> cfg_str(e, "SENDGRID_API_KEY", "")],
         DEFAULT_FROM_EMAIL |->
            cfg_str(e, "DEFAULT_FROM_EMAIL", "noreply@primepass.com"),
         SERVER_EMAIL |-> cfg_str(e, "SERVER_EMAIL", "server@primepass.com"),
         LOGGING |-> PROD_LOGGING])

\* `if SENTRY_DSN:` the DSN read is a non-empty string
\* (mutant) the SDK is initialized whenever SENTRY_DSN is bound
SentryEnabledWhenBound(e) == Has(e, "SENTRY_DSN")

SentryEnabled(e) == cfg_str(e, "SENTRY_DSN", "") # ""

\* the arguments of sentry_sdk.init are evaluated before it is called
ProdSentryReads(e) ==
    <<Rd("SENTRY_DSN", "str", FALSE)>>
    \o (IF SentryEnabled(e)
        THEN <<Rd("SENTRY_TRACES_SAMPLE_RATE", "float", FALSE),
               Rd("ENVIRONMENT", "str", FALSE), Rd("RELEASE_VERSION", "str", FALSE)>>
        ELSE <<>>)

ProdSentry(s, e) == Upd(s, [SENTRY_DSN |-> cfg_str(e, "SENTRY_DSN", "")])

\* (mutant) production reads CORS_ALLOWED_ORIGINS with a default
ProdCorsReadsDefaulted == <<Rd("CORS_ALLOWED_ORIGINS", "csv", FALSE)>>

ProdCorsReads == <<Rd("CORS_ALLOWED_ORIGINS", "csv", TRUE)>>

ProdCors(s, e) ==
    Upd(s,
        [CORS_ALLOW_ALL_ORIGINS |-> FALSE,
         CORS_ALLOWED_ORIGINS |-> cfg_csv(e, "CORS_ALLOWED_ORIGINS", "")])

\* list.insert(i, x) with a 0-based index i >= 0
\* (mutant) the index is taken as one-based: x becomes element i
ListInsertOneBased(l, i, x) ==
    IF i > Len(l) THEN Append(l, x)
    ELSE SubSeq(l, 1, i - 1) \o <<x>> \o SubSeq(l, i, Len(l))

\* list.insert(i, x): x becomes element i, counting from 0
ListInsert(l, i, x) ==
    IF i >= Len(l) THEN Append(l, x)
    ELSE SubSeq(l, 1, i) \o <<x>> \o SubSeq(l, i + 1, Len(l))

ProdTailReads == <<Rd("ADMIN_URL", "str", FALSE)>>

ProdTail(s, e) ==
    Upd([s EXCEPT
            !.DATABASES.default.OPTIONS =
                Upd(@, [MAX_CONNS |-> 20,
                        OPTIONS |-> [MAX_CONNS |-> 20, autocommit |-> TRUE]]),
            !.TEMPLATES[1].OPTIONS =
                Upd(@, [loaders |->
                    <<<<"django.template.loaders.cached.Loader",
                        <<"django.template.loaders.filesystem.Loader",
                          "django.template.loaders.app_directories.Loader">>>>>>]),
            !.REST_FRAMEWORK.DEFAULT_RENDERER_CLASSES =
                <<"djangorestframework_camel_case.render.CamelCaseJSONRenderer">>,
            !.MIDDLEWARE =
                Append(ListInsert(@, 1, "django.middleware.cache.UpdateCacheMiddleware"),
                       "django.middleware.cache.FetchFromCacheMiddleware")],
        [CELERY_TASK_ALWAYS_EAGER |-> FALSE,
         CELERY_WORKER_PREFETCH_MULTIPLIER |-> 1,
         CELERY_TASK_ACKS_LATE |-> TRUE,
         CELERY_WORKER_MAX_TASKS_PER_CHILD |-> 1000,
         CELERY_TASK_ROUTES |->
            ("apps.notifications.tasks.*" :> [queue |-> "notifications"])
            @@ ("apps.events.tasks.*" :> [queue |-> "events"])
            @@ ("apps.analytics.tasks.*" :> [queue |-> "analytics"]),
         HEALTH_CHECK |-> [DISK_USAGE_MAX |-> 90, MEMORY_MIN |-> 100],
         RATELIMIT_ENABLE |-> TRUE,
         RATELIMIT_USE_CACHE |-> "default",
         CACHE_MIDDLEWARE_ALIAS |-> "default",
         CACHE_MIDDLEWARE_SECONDS |-> 600,
         CACHE_MIDDLEWARE_KEY_PREFIX |-> "primepass",
         DBBACKUP_STORAGE |-> "django.core.files.storage.FileSystemStorage",
         DBBACKUP_STORAGE_OPTIONS |-> [location |-> "/var/backups/primepass/"],
         ADMIN_URL |-> cfg_str(e, "ADMIN_URL", "admin/"),
         ADMIN_FORCE_ALLAUTH |-> TRUE])

\* the base keys development.py assigns or mutates in place
DevTouched ==
    {"DEBUG", "ALLOWED_HOSTS", "INSTALLED_APPS", "MIDDLEWARE", "DATABASES",
     "CACHES", "EMAIL_BACKEND", "CORS_ALLOW_ALL_ORIGINS", "CORS_ALLOWED_ORIGINS",
     "LOGGING", "TEMPLATES"}

\* the base keys production.py assigns or mutates in place
ProdTouched ==
    {"DEBUG", "ALLOWED_HOSTS", "SECURE_CONTENT_TYPE_NOSNIFF",
     "SECURE_BROWSER_XSS_FILTER", "DATABASES", "CACHES", "STATICFILES_STORAGE",
     "STATIC_URL", "MEDIA_URL", "EMAIL_BACKEND", "LOGGING",
     "CORS_ALLOW_ALL_ORIGINS", "CORS_ALLOWED_ORIGINS", "TEMPLATES",
     "REST_FRAMEWORK", "MIDDLEWARE"}

----------------------------------------------------------------------------
(* backend/celery.py and backend/urls.py.                                  *)

\* the settings modules that exist under backend/settings/
SettingsModules ==
    {"backend.settings.base", "backend.settings.development",
     "backend.settings.production"}

\* (mutant) the bootstrap assigns the selector instead of defaulting it
SetDefaultOverrides(sel) == <<"backend.settings.development">>

\* os.environ.setdefault('DJANGO_SETTINGS_MODULE', ...)
SetDefault(sel) == IF sel = <<>> THEN <<"backend.settings.development">> ELSE sel

\* app.conf.beat_schedule, in declaration order (seconds as integers)
\* (mutant) the handler of the first entry is not commented out
BeatScheduleAllHandlers ==
    <<[name |-> "cleanup-expired-tokens",
       entry |-> [task |-> "apps.accounts.tasks.cleanup_expired_tokens",
                  schedule |-> 3600]],
      [name |-> "send-event-reminders",
       entry |-> [task |-> "apps.events.tasks.send_event_reminders",
                  schedule |-> 1800]],
      [name |-> "update-event-analytics",
       entry |-> [task |-> "apps.analytics.tasks.update_event_analytics",
                  schedule |-> 900]],
      [name |-> "cleanup-old-notifications",
       entry |-> [task |-> "apps.notifications.tasks.cleanup_old_notifications",
                  schedule |-> 86400]]>>

BEAT_SCHEDULE ==
    <<[name |-> "cleanup-expired-tokens", entry |-> [schedule |-> 3600]],
      [name |-> "send-event-reminders",
       entry |-> [task |-> "apps.events.tasks.send_event_reminders",
                  schedule |-> 1800]],
      [name |-> "update-event-analytics",
       entry |-> [task |-> "apps.analytics.tasks.update_event_analytics",
                  schedule |-> 900]],
      [name |-> "cleanup-old-notifications",
       entry |-> [task |-> "apps.notifications.tasks.cleanup_old_notifications",
                  schedule |-> 86400]]>>

\* a route: its path as the sequence of its segments, how it matches
\* ("path": the whole remaining path, "include": a prefix handing the rest
\* to a nested table, "static": the prefix regex static() builds), its
\* handler and its name ("" when unnamed)
Route(kind, route, view, name) ==
    [kind |-> kind, route |-> route, view |-> view, name |-> name]

\* (mutant) a prefix-matching route for 'auth/' is declared first
ApiV1PatternsAuthIncludeFirst ==
    <<Route("include", <<"auth">>, "apps.accounts.urls", ""),
      Route("path", <<"auth", "token">>, "TokenObtainPairView", "token_obtain_pair"),
      Route("path", <<"auth", "token", "refresh">>, "TokenRefreshView", "token_refresh"),
      Route("path", <<"auth", "token", "verify">>, "TokenVerifyView", "token_verify"),
      Route("include", <<"health">>, "health_check.urls", "")>>

api_v1_patterns ==
    <<Route("path", <<"auth", "token">>, "TokenObtainPairView", "token_obtain_pair"),
      Route("path", <<"auth", "token", "refresh">>, "TokenRefreshView", "token_refresh"),
      Route("path", <<"auth", "token", "verify">>, "TokenVerifyView", "token_verify"),
      Route("include", <<"health">>, "health_check.urls", "")>>

base_urlpatterns ==
    <<Route("include", <<"admin">>, "admin.site.urls", ""),
      Route("include", <<"api", "v1">>, "api_v1_patterns", ""),
      Route("path", <<"api", "schema">>, "SpectacularAPIView", "schema"),
      Route("path", <<"api", "docs">>, "SpectacularSwaggerView", "swagger-ui"),
      Route("path", <<"api", "redoc">>, "SpectacularRedocView", "redoc")>>

debug_urlpatterns ==
    <<Route("include", <<"__debug__">>, "debug_toolbar.urls", ""),
      Route("include", <<"silk">>, "silk.urls", "")>>

\* urlsplit(prefix).netloc is not empty, on the URL values of the bindings
\* and on the URLs the S3 block builds (they start with "https://")
HasNetloc(prefix) ==
    prefix \in {"https://cdn.example.com/media/", "https://cdn.example.com/static/",
                "//cdn.example.com/media/"}

\* prefix.lstrip('/') as path segments, on the local prefixes in use
PrefixSegments ==
    ("/media/" :> <<"media">>) @@ ("/static/" :> <<"static">>)
    @@ ("/assets/media/" :> <<"assets", "media">>)
    @@ ("/api/v1/media/" :> <<"api", "v1", "media">>)

\* django.conf.urls.static.static(prefix, document_root=...) raises on an
\* empty prefix
StaticRaises(prefix) == prefix = ""

\* ... and else returns no route unless DEBUG is on and the prefix is local
static(c, prefix) ==
    IF ~c.DEBUG \/ HasNetloc(prefix) THEN <<>>
    ELSE <<Route("static",
                 IF prefix \in DOMAIN PrefixSegments THEN PrefixSegments[prefix]
                 ELSE <<prefix>>,
                 "serve", "")>>

\* the exception raised while backend/urls.py is executed, or NoError
UrlsError(c) ==
    IF c.DEBUG /\ StaticRaises(c.MEDIA_URL)
    THEN [kind |-> "ImproperlyConfigured", key |-> "MEDIA_URL"]
    ELSE IF c.DEBUG /\ StaticRaises(c.STATIC_URL)
    THEN [kind |-> "ImproperlyConfigured", key |-> "STATIC_URL"]
    ELSE NoError

\* (mutant) the two tool routes are left out of the DEBUG block
AssembleUrlsNoToolRoutes(c) ==
    IF c.DEBUG
    THEN base_urlpatterns \o static(c, c.MEDIA_URL) \o static(c, c.STATIC_URL)
    ELSE base_urlpatterns

\* (mutant) the development routes are appended whatever DEBUG is
AssembleUrlsUnconditional(c) ==
    base_urlpatterns \o debug_urlpatterns
    \o static(c, c.MEDIA_URL) \o static(c, c.STATIC_URL)

\* urlpatterns as backend/urls.py leaves it under configuration c
AssembleUrls(c) ==
    IF c.DEBUG
    THEN base_urlpatterns \o debug_urlpatterns
         \o static(c, c.MEDIA_URL) \o static(c, c.STATIC_URL)
    ELSE base_urlpatterns

----------------------------------------------------------------------------
(* The environments explored: the values each binding may take when it is  *)
(* present, and three deployment profiles; an environment differs from a   *)
(* profile in at most MaxChanges bindings (set, changed or removed).       *)

EnvValues ==
    [DEBUG |-> {"True", "false"},
     SECRET_KEY |-> {"s3cr3t"},
     ALLOWED_HOSTS |-> {"example.com, api.example.com"},
     DATABASE_NAME |-> {"primepass_prod"},
     DATABASE_HOST |-> {"db.internal"},
     DATABASE_PORT |-> {"5433"},
     PGBOUNCER_PORT |-> {"6543"},
     USE_PGBOUNCER |-> {"true"},
     DOCKER_ENV |-> {"true"},
     REDIS_URL |-> {"redis://cache:6379/1"},
     CACHE_TTL |-> {"60", "notanumber"},
     SESSION_CACHE_TTL |-> {"120"},
     JWT_ACCESS_TOKEN_LIFETIME |-> {"300"},
     JWT_REFRESH_TOKEN_LIFETIME |-> {"7200", "1 day"},
     CORS_ALLOWED_ORIGINS |-> {"https://app.example.com"},
     SENTRY_DSN |-> {"", "https://key@sentry.example.com/1"},
     USE_S3 |-> {"true", "false"},
     AWS_ACCESS_KEY_ID |-> {"AKIAEXAMPLE"},
     AWS_SECRET_ACCESS_KEY |-> {"aws-secret"},
     AWS_STORAGE_BUCKET_NAME |-> {"primepass-media"},
     MEDIA_URL |-> {"", "https://cdn.example.com/media/", "/api/v1/media/"},
     STATIC_URL |-> {"https://cdn.example.com/static/"},
     CELERY_EAGER |-> {"true", "false"},
     ADMIN_URL |-> {"secret-admin/"}]

EnvNames == DOMAIN EnvValues

\* nothing bound: a developer machine
LocalProfile == Empty

\* what production.py reads without a default
ProductionProfile ==
    [ALLOWED_HOSTS |-> "example.com, api.example.com",
     DATABASE_HOST |-> "db.internal",
     CORS_ALLOWED_ORIGINS |-> "https://app.example.com"]

\* production with S3 storage
S3Profile ==
    Upd(ProductionProfile,
        [USE_S3 |-> "true", AWS_ACCESS_KEY_ID |-> "AKIAEXAMPLE",
         AWS_SECRET_ACCESS_KEY |-> "aws-secret",
         AWS_STORAGE_BUCKET_NAME |-> "primepass-media"])

Profiles == {LocalProfile, ProductionProfile, S3Profile}

Bind(e, n, v) == Upd(e, n :> v)

Unbind(e, n) == [k \in DOMAIN e \ {n} |-> e[k]]

\* the environments one binding away from e, and e itself
OneChange(e) ==
    {e} \cup UNION {{Bind(e, n, v) : v \in EnvValues[n]} : n \in EnvNames}
        \cup {Unbind(e, n) : n \in DOMAIN e}

RECURSIVE Within(_, _)
Within(S, k) == IF k = 0 THEN S ELSE Within(UNION {OneChange(e) : e \in S}, k - 1)

Environments == Within(Profiles, MaxChanges)

\* what DJANGO_SETTINGS_MODULE may be bound to when the process starts
Selectors ==
    {<<>>, <<"backend.settings.development">>, <<"backend.settings.production">>,
     <<"backend.settings.base">>, <<"backend.settings.staging">>}

----------------------------------------------------------------------------
(* The process start.                                                      *)

BaseSections == <<"base_core", "base_data", "base_auth", "base_services", "base_misc">>

DevSections == <<"dev_debug", "dev_database", "dev_services", "dev_testing">>

ProdSections ==
    <<"prod_security", "prod_data", "prod_storage", "prod_mail", "prod_sentry",
      "prod_cors", "prod_tail">>

Range(q) == {q[i] : i \in DOMAIN q}

\* the section after sec in the file secs, or "end"
After(secs, sec) ==
    LET i == CHOOSE j \in DOMAIN secs : secs[j] = sec
    IN  IF i = Len(secs) THEN "end" ELSE secs[i + 1]

\* the overlay the selected module applies ("base": none)
Overlay ==
    IF module = <<"backend.settings.development">> THEN "development"
    ELSE IF module = <<"backend.settings.production">> THEN "production"
    ELSE IF module = <<"backend.settings.base">> THEN "base"
    ELSE "none"

Launch == [docker |-> dockerenv, test |-> testMode]

Init ==
    /\ env \in Environments
    /\ selector \in Selectors
    /\ module = selector
    /\ dockerenv \in BOOLEAN
    /\ testMode \in BOOLEAN
    /\ pc = "start"
    /\ settings = Empty
    /\ baseSet = Empty
    /\ conf = Empty
    /\ error = NoError
    /\ sentryInit = FALSE
    /\ beat_schedule = <<>>
    /\ urlpatterns = <<>>
    /\ restarted = FALSE
    /\ firstConf = Empty
    /\ firstLaunch = Launch

\* celery.py: os.environ.setdefault('DJANGO_SETTINGS_MODULE', ...)
Bootstrap ==
    /\ pc = "start"
    /\ module' = SetDefault(module)
    /\ pc' = "import"
    /\ UNCHANGED <<env, selector, dockerenv, testMode, settings, baseSet, conf, error,
                   sentryInit, beat_schedule, urlpatterns, restarted, firstConf,
                   firstLaunch>>

\* the exception raised by the statement that aborts the start
Abort(err) ==
    /\ pc' = "aborted"
    /\ error' = err

\* django.conf.settings imports the module the selector names
ImportSettings ==
    /\ pc = "import"
    /\ IF module = <<>>
       THEN Abort([kind |-> "ImproperlyConfigured", key |-> "DJANGO_SETTINGS_MODULE"])
       ELSE IF module[1] \in SettingsModules
       THEN pc' = BaseSections[1] /\ error' = error
       ELSE Abort([kind |-> "ModuleNotFoundError", key |-> module[1]])
    /\ UNCHANGED <<env, selector, module, dockerenv, testMode, settings, baseSet, conf,
                   sentryInit, beat_schedule, urlpatterns, restarted, firstConf,
                   firstLaunch>>

BaseReads(sec) ==
    CASE sec = "base_core" -> BaseCoreReads
      [] sec = "base_data" -> BaseDataReads
      [] sec = "base_auth" -> BaseAuthReads
      [] sec = "base_services" -> BaseServicesReads
      [] sec = "base_misc" -> BaseMiscReads

BaseApply(sec, s, e) ==
    CASE sec = "base_core" -> BaseCore(s, e)
      [] sec = "base_data" -> BaseData(s, e)
      [] sec = "base_auth" -> BaseAuth(s, e)
      [] sec = "base_services" -> BaseServices(s, e)
      [] sec = "base_misc" -> BaseMisc(s, e)

\* where execution continues once base.py has been executed
AfterBase ==
    CASE Overlay = "development" -> DevSections[1]
      [] Overlay = "production" -> ProdSections[1]
      [] OTHER -> "configure"

\* one section of base.py
LoadBase ==
    /\ pc \in Range(BaseSections)
    /\ LET err == FirstError(env, BaseReads(pc))
           s == BaseApply(pc, settings, env)
       IN  IF err # NoError
           THEN Abort(err) /\ UNCHANGED <<settings, baseSet>>
           ELSE /\ settings' = s
                /\ error' = error
                /\ IF After(BaseSections, pc) = "end"
                   THEN pc' = AfterBase /\ baseSet' = s
                   ELSE pc' = After(BaseSections, pc) /\ baseSet' = baseSet
    /\ UNCHANGED <<env, selector, module, dockerenv, testMode, conf, sentryInit,
                   beat_schedule, urlpatterns, restarted, firstConf,
                   firstLaunch>>

DevReads(sec, e, docker) ==
    CASE sec = "dev_debug" -> DevDebugReads
      [] sec = "dev_database" -> DevDatabaseReads(e, docker)
      [] sec = "dev_services" -> DevServicesReads
      [] sec = "dev_testing" -> <<>>

DevApply(sec, s, e, docker, test) ==
    CASE sec = "dev_debug" -> DevDebug(s, e)
      [] sec = "dev_database" -> DevDatabase(s, e, docker)
      [] sec = "dev_services" -> DevServices(s, e)
      [] sec = "dev_testing" -> DevTesting(s, test)

\* one section of development.py
LoadDevelopment ==
    /\ pc \in Range(DevSections)
    /\ LET err == FirstError(env, DevReads(pc, env, dockerenv))
       IN  IF err # NoError
           THEN Abort(err) /\ UNCHANGED settings
           ELSE /\ settings' = DevApply(pc, settings, env, dockerenv, testMode)
                /\ error' = error
                /\ pc' = IF After(DevSections, pc) = "end" THEN "configure"
                         ELSE After(DevSections, pc)
    /\ UNCHANGED <<env, selector, module, dockerenv, testMode, baseSet, conf, sentryInit,
                   beat_schedule, urlpatterns, restarted, firstConf,
                   firstLaunch>>

ProdReads(sec, e) ==
    CASE sec = "prod_security" -> ProdSecurityReads
      [] sec = "prod_data" -> ProdDataReads
      [] sec = "prod_storage" -> ProdStorageReads(e)
      [] sec = "prod_mail" -> ProdMailReads
      [] sec = "prod_sentry" -> ProdSentryReads(e)
      [] sec = "prod_cors" -> ProdCorsReads
      [] sec = "prod_tail" -> ProdTailReads

ProdApply(sec, s, e) ==
    CASE sec = "prod_security" -> ProdSecurity(s, e)
      [] sec = "prod_data" -> ProdData(s, e)
      [] sec = "prod_storage" -> ProdStorage(s, e)
      [] sec = "prod_mail" -> ProdMail(s, e)
      [] sec = "prod_sentry" -> ProdSentry(s, e)
      [] sec = "prod_cors" -> ProdCors(s, e)
      [] sec = "prod_tail" -> ProdTail(s, e)

\* sentry_sdk.init is called by section sec under bindings e
CallsSentryInit(sec, e) == sec = "prod_sentry" /\ SentryEnabled(e)

\* one section of production.py
LoadProduction ==
    /\ pc \in Range(ProdSections)
    /\ LET err == FirstError(env, ProdReads(pc, env))
       IN  IF err # NoError
           THEN Abort(err) /\ UNCHANGED <<settings, sentryInit>>
           ELSE /\ settings' = ProdApply(pc, settings, env)
                /\ sentryInit' = (sentryInit \/ CallsSentryInit(pc, env))
                /\ error' = error
                /\ pc' = IF After(ProdSections, pc) = "end" THEN "configure"
                         ELSE After(ProdSections, pc)
    /\ UNCHANGED <<env, selector, module, dockerenv, testMode, baseSet, conf,
                   beat_schedule, urlpatterns, restarted, firstConf,
                   firstLaunch>>

\* the module's names become the ConfigurationSet of django.conf.settings
\* (celery.py: app.config_from_object('django.conf:settings', ...))
Configure ==
    /\ pc = "configure"
    /\ conf' = settings
    /\ pc' = "beat"
    /\ UNCHANGED <<env, selector, module, dockerenv, testMode, settings, baseSet, error,
                   sentryInit, beat_schedule, urlpatterns, restarted, firstConf,
                   firstLaunch>>

\* celery.py: app.conf.beat_schedule = {...}
DeclareBeatSchedule ==
    /\ pc = "beat"
    /\ beat_schedule' = BEAT_SCHEDULE
    /\ pc' = "urls"
    /\ UNCHANGED <<env, selector, module, dockerenv, testMode, settings, baseSet, conf,
                   error, sentryInit, urlpatterns, restarted, firstConf,
                   firstLaunch>>

\* backend/urls.py is executed (ROOT_URLCONF)
ImportUrls ==
    /\ pc = "urls"
    /\ IF UrlsError(conf) # NoError
       THEN Abort(UrlsError(conf)) /\ UNCHANGED urlpatterns
       ELSE /\ urlpatterns' = AssembleUrls(conf)
            /\ pc' = "ready"
            /\ error' = error
    /\ UNCHANGED <<env, selector, module, dockerenv, testMode, settings, baseSet, conf,
                   sentryInit, beat_schedule, restarted, firstConf,
                   firstLaunch>>

\* the process is started once more with the same bindings and selector
Restart ==
    /\ pc = "ready"
    /\ ~restarted
    /\ restarted' = TRUE
    /\ firstConf' = conf
    /\ firstLaunch' = Launch
    /\ module' = selector
    /\ dockerenv' \in BOOLEAN
    /\ testMode' \in BOOLEAN
    /\ pc' = "start"
    /\ settings' = Empty
    /\ baseSet' = Empty
    /\ conf' = Empty
    /\ error' = NoError
    /\ sentryInit' = FALSE
    /\ beat_schedule' = <<>>
    /\ urlpatterns' = <<>>
    /\ UNCHANGED <<env, selector>>

\* one process start
Next ==
    \/ Bootstrap
    \/ ImportSettings
    \/ LoadBase
    \/ LoadDevelopment
    \/ LoadProduction
    \/ Configure
    \/ DeclareBeatSchedule
    \/ ImportUrls

Spec == Init /\ [][Next]_vars

\* two process starts with the same bindings and selector
NextTwice ==
    \/ Bootstrap
    \/ ImportSettings
    \/ LoadBase
    \/ LoadDevelopment
    \/ LoadProduction
    \/ Configure
    \/ DeclareBeatSchedule
    \/ ImportUrls
    \/ Restart

SpecTwice == Init /\ [][NextTwice]_vars

----------------------------------------------------------------------------
(* Properties.                                                             *)

\* a ConfigurationSet has been handed to consumers
Resolved == DOMAIN conf # {}

\* binding n is present and cast=bool reads it as true
BoundTrue(n) == Has(env, n) /\ cast_bool(env[n])

\* C1: once the set is resolved, DEBUG is fixed by the overlay alone: true
\* under development, false under production, whatever the bindings are
\* (DEBUG=True in the environment included).
C1_DebugFixedByOverlay ==
    Resolved =>
        /\ Overlay = "development" => conf.DEBUG = TRUE
        /\ Overlay = "production" => conf.DEBUG = FALSE

\* production came up with DEBUG=True bound, and DEBUG is off
C1_Witness ==
    /\ pc = "ready"
    /\ Overlay = "production"
    /\ BoundTrue("DEBUG")
    /\ baseSet.DEBUG = TRUE
    /\ conf.DEBUG = FALSE


\* the routes of table t that satisfy Test
Routes(t, Test(_)) == {t[i] : i \in {j \in DOMAIN t : Test(t[j])}}

IsDebugRoute(r) == r.route \in {<<"__debug__">>, <<"silk">>}

IsFileRoute(r) == r.kind = "static"

\* the file-serving route static() builds for prefix is in table t
ServesFiles(t, prefix) ==
    \E i \in DOMAIN t :
        /\ t[i].kind = "static"
        /\ prefix \in DOMAIN PrefixSegments
        /\ t[i].route = PrefixSegments[prefix]

\* no developer-only route is in table t
NoDeveloperRoutes(t) ==
    Routes(t, IsDebugRoute) = {} /\ Routes(t, IsFileRoute) = {}

\* C2 as stated: once the route table is assembled, under development it
\* holds '__debug__/', 'silk/' and the media and static file-serving
\* routes, under production none of them, whatever the bindings are.
C2_Original ==
    pc = "ready" =>
        /\ Overlay = "development" =>
              /\ Cardinality(Routes(urlpatterns, IsDebugRoute)) = 2
              /\ ServesFiles(urlpatterns, conf.MEDIA_URL)
              /\ ServesFiles(urlpatterns, conf.STATIC_URL)
        /\ Overlay = "production" => NoDeveloperRoutes(urlpatterns)

\* C2 amended: under development the table holds '__debug__/' and 'silk/',
\* and the media (static) file-serving route exactly when MEDIA_URL
\* (STATIC_URL) has no network location; under production it holds none of
\* the developer-only routes, whatever the bindings are.
C2_DeveloperRoutes ==
    pc = "ready" =>
        /\ Overlay = "development" =>
              /\ Cardinality(Routes(urlpatterns, IsDebugRoute)) = 2
              /\ ServesFiles(urlpatterns, conf.MEDIA_URL) <=> ~HasNetloc(conf.MEDIA_URL)
              /\ ServesFiles(urlpatterns, conf.STATIC_URL) <=> ~HasNetloc(conf.STATIC_URL)
        /\ Overlay = "production" => NoDeveloperRoutes(urlpatterns)

\* development came up with MEDIA_URL bound to a URL on another host: the
\* debug routes and the static route are there, the media route is not
C2_Witness ==
    /\ pc = "ready"
    /\ Overlay = "development"
    /\ HasNetloc(conf.MEDIA_URL)
    /\ Cardinality(Routes(urlpatterns, IsDebugRoute)) = 2
    /\ ServesFiles(urlpatterns, conf.STATIC_URL)
    /\ ~ServesFiles(urlpatterns, conf.MEDIA_URL)

\* C3 as stated: a second resolution with the same overlay and bindings
\* yields the ConfigurationSet of the first; nothing else (the /.dockerenv
\* file, 'test' on the command line, pytest being loaded) changes a value.
C3_Original == (restarted /\ Resolved) => conf = firstConf

\* C3 amended: a second resolution with the same overlay and bindings
\* yields the ConfigurationSet of the first when the overlay is not
\* development, or when /.dockerenv is present in both or in neither and
\* test mode is the same in both; under development these two launch
\* conditions change resolved values.
C3_Deterministic ==
    (restarted /\ Resolved /\ (Overlay # "development" \/ firstLaunch = Launch))
        => conf = firstConf

\* production resolved twice, in and out of a container and of test mode,
\* to the same set
C3_Witness ==
    /\ restarted
    /\ pc = "ready"
    /\ Overlay = "production"
    /\ firstLaunch.docker # dockerenv
    /\ firstLaunch.test # testMode
    /\ conf = firstConf

\* the sub-keys of the base cache OPTIONS map that no overlay names
UntouchedCacheOptions == {"CLIENT_CLASS", "SERIALIZER", "COMPRESSOR"}

\* the resolved cache OPTIONS map still has the base's untouched sub-keys
\* with their base values, next to the overlay's IGNORE_EXCEPTIONS
CacheOptionsMerged ==
    /\ Has(conf.CACHES.default, "OPTIONS")
    /\ \A k \in UntouchedCacheOptions :
          /\ Has(conf.CACHES.default.OPTIONS, k)
          /\ conf.CACHES.default.OPTIONS[k] = baseSet.CACHES.default.OPTIONS[k]
    /\ Has(conf.CACHES.default.OPTIONS, "IGNORE_EXCEPTIONS")

\* the resolved database OPTIONS map still has the base's connect_timeout
DatabaseOptionsMerged ==
    /\ Has(conf.DATABASES.default, "OPTIONS")
    /\ Has(conf.DATABASES.default.OPTIONS, "connect_timeout")
    /\ conf.DATABASES.default.OPTIONS.connect_timeout =
          baseSet.DATABASES.default.OPTIONS.connect_timeout

\* C4 as stated: after either overlay, under any bindings and launch
\* conditions, the cache OPTIONS sub-keys the overlay does not name keep
\* their base values next to IGNORE_EXCEPTIONS, and after production the
\* database OPTIONS keeps connect_timeout.
C4_Original ==
    (Resolved /\ Overlay \in {"development", "production"}) =>
        /\ CacheOptionsMerged
        /\ Overlay = "production" => DatabaseOptionsMerged

\* C4 amended: the same, except under the development overlay in test
\* mode, where the testing overrides replace CACHES by the dummy backend
\* with no OPTIONS map at all.
C4_PartialMerge ==
    (Resolved /\ Overlay \in {"development", "production"}) =>
        /\ ~(Overlay = "development" /\ testMode) => CacheOptionsMerged
        /\ (Overlay = "development" /\ testMode) =>
              conf.CACHES.default =
                  [BACKEND |-> "django.core.cache.backends.dummy.DummyCache"]
        /\ Overlay = "production" => DatabaseOptionsMerged

\* production came up: its OPTIONS updates are in, the base sub-keys too
C4_Witness ==
    /\ pc = "ready"
    /\ Overlay = "production"
    /\ conf.CACHES.default.OPTIONS.IGNORE_EXCEPTIONS = FALSE
    /\ conf.CACHES.default.OPTIONS.CONNECTION_POOL_KWARGS.max_connections = 100
    /\ conf.CACHES.default.OPTIONS.SERIALIZER =
          "django_redis.serializers.json.JSONSerializer"
    /\ conf.DATABASES.default.OPTIONS.sslmode = "require"
    /\ conf.DATABASES.default.OPTIONS.connect_timeout = 10

\* the base keys the active overlay assigns or mutates
Touched ==
    CASE Overlay = "development" -> DevTouched
      [] Overlay = "production" -> ProdTouched
      [] OTHER -> {}

\* C5: every key of the base set is in the resolved set, and every base key
\* the active overlay neither assigns nor mutates (SIMPLE_JWT,
\* CHANNEL_LAYERS, SESSION_COOKIE_AGE, AXES_FAILURE_LIMIT, CELERY_BROKER_URL,
\* ...) has the value the base computed from the same bindings.
C5_UntouchedKeysKept ==
    Resolved =>
        \A k \in DOMAIN baseSet :
            /\ k \in DOMAIN conf
            /\ k \notin Touched => conf[k] = baseSet[k]

\* production came up with a JWT lifetime bound: the overlay added keys and
\* the base's SIMPLE_JWT, session age and broker URL are as the base left them
C5_Witness ==
    /\ pc = "ready"
    /\ Overlay = "production"
    /\ Has(env, "JWT_ACCESS_TOKEN_LIFETIME")
    /\ {"SIMPLE_JWT", "CHANNEL_LAYERS", "SESSION_COOKIE_AGE", "AXES_FAILURE_LIMIT",
        "CELERY_BROKER_URL"} \subseteq DOMAIN baseSet \ Touched
    /\ conf.SIMPLE_JWT.ACCESS_TOKEN_LIFETIME = 300
    /\ conf.SIMPLE_JWT = baseSet.SIMPLE_JWT
    /\ DOMAIN conf # DOMAIN baseSet

\* binding n is present and int() rejects it
MalformedInt(n) == Has(env, n) /\ ~IsInt(env[n])

\* the integer-typed bindings base.py reads
BaseIntBindings ==
    UNION {{BaseReads(sec)[i].name : i \in {j \in DOMAIN BaseReads(sec) :
                BaseReads(sec)[j].cast = "int"}} : sec \in Range(BaseSections)}

\* C6: under either overlay, with an integer-typed binding of base.py bound
\* to a string that is not an integer the start never leaves base.py, where
\* it aborts with a coercion error (for CACHE_TTL no later than the cache
\* section); base loading never completes and no ConfigurationSet, route
\* table or beat schedule is produced.
C6_MalformedTtlAborts ==
    /\ (Overlay \in {"development", "production"}
          /\ \E n \in BaseIntBindings : MalformedInt(n)) =>
            /\ pc \in {"start", "import", "aborted"} \cup Range(BaseSections)
            /\ pc = "aborted" =>
                  (error.kind = "ValueError" /\ MalformedInt(error.key))
            /\ DOMAIN baseSet = {}
            /\ ~Resolved
            /\ urlpatterns = <<>>
            /\ beat_schedule = <<>>
    /\ (Overlay \in {"development", "production"} /\ MalformedInt("CACHE_TTL")) =>
            /\ pc \in {"start", "import", "base_core", "base_data", "aborted"}
            /\ pc = "aborted" => error.key = "CACHE_TTL"

\* production aborted on CACHE_TTL=notanumber while base.py was executed
C6_Witness ==
    /\ Overlay = "production"
    /\ MalformedInt("CACHE_TTL")
    /\ pc = "aborted"
    /\ error = [kind |-> "ValueError", key |-> "CACHE_TTL"]
    /\ Has(settings, "SECRET_KEY")
    /\ ~Has(settings, "CACHES")
    /\ ~Resolved

\* C7 as stated: with the selector absent from the environment no overlay
\* is assumed: the start fails to load and no set is resolved.
C7_Original == selector = <<>> => (Overlay = "none" /\ ~Resolved)

\* C7 amended: the task-queue bootstrap binds an absent selector to
\* backend.settings.development before anything is loaded and leaves a
\* bound selector as it is; so nothing is loaded with an unbound selector,
\* and an absent selector always means the development overlay.
C7_DefaultsToDevelopment ==
    pc # "start" =>
        /\ module # <<>>
        /\ selector = <<>> => Overlay = "development"
        /\ selector # <<>> => module = selector

\* a process started without a selector came up under development
C7_Witness ==
    /\ selector = <<>>
    /\ pc = "ready"
    /\ Overlay = "development"
    /\ conf.DEBUG = TRUE
    /\ Has(conf, "DEBUG_TOOLBAR_CONFIG")

RecognizedOverlays == {"backend.settings.development", "backend.settings.production"}

\* C8: with the selector bound to anything but the two recognized overlays
\* the start aborts with an unrecognized-overlay error when the module is
\* imported, and no ConfigurationSet is produced.
C8_Original ==
    (selector # <<>> /\ selector[1] \notin RecognizedOverlays) =>
        /\ pc \in {"start", "import", "aborted"}
        /\ pc = "aborted" => error.kind = "ModuleNotFoundError"
        /\ ~Resolved

\* the bindings production.py reads without a default, each with the
\* section that reads it
ProdRequired ==
    [ALLOWED_HOSTS |-> "prod_security", DATABASE_HOST |-> "prod_data",
     CORS_ALLOWED_ORIGINS |-> "prod_cors"]

\* the positions of a production start after section sec has been executed
PastSection(sec) ==
    {ProdSections[i] : i \in {j \in DOMAIN ProdSections :
        \E k \in DOMAIN ProdSections : ProdSections[k] = sec /\ k < j}}
    \cup {"configure", "beat", "urls", "ready"}

\* C9: under production, with ALLOWED_HOSTS, DATABASE_HOST or
\* CORS_ALLOWED_ORIGINS absent the start never gets past the section that
\* reads it (it aborts there with a missing-binding error unless it aborted
\* before) and no ConfigurationSet is handed over; under development no
\* start aborts on a missing binding.
C9_RequiredInProduction ==
    /\ Overlay = "production" =>
          \A n \in DOMAIN ProdRequired \ DOMAIN env :
              /\ pc \notin PastSection(ProdRequired[n])
              /\ ~Resolved
              /\ (pc = "aborted" /\ error.key = n) =>
                    error.kind = "UndefinedValueError"
              /\ (pc = "aborted" /\ Has(settings, "SENTRY_DSN")) =>
                    error.kind = "UndefinedValueError"
    /\ Overlay = "development" => error.kind # "UndefinedValueError"

\* production aborted on the missing CORS_ALLOWED_ORIGINS, after every
\* section before the CORS one had been executed
C9_Witness ==
    /\ Overlay = "production"
    /\ ~Has(env, "CORS_ALLOWED_ORIGINS")
    /\ pc = "aborted"
    /\ error = [kind |-> "UndefinedValueError", key |-> "CORS_ALLOWED_ORIGINS"]
    /\ Has(settings, "SENTRY_DSN")
    /\ ~Resolved

\* the bindings base.py reads, among those the external interface lists
BaseListed ==
    {"SECRET_KEY", "DEBUG", "ALLOWED_HOSTS", "DATABASE_HOST", "DATABASE_PORT",
     "DATABASE_NAME", "DATABASE_USER", "DATABASE_PASSWORD", "REDIS_URL",
     "CACHE_TTL", "JWT_ACCESS_TOKEN_LIFETIME", "JWT_REFRESH_TOKEN_LIFETIME",
     "CORS_ALLOWED_ORIGINS"}

\* the listed bindings only production.py reads
ProdListed == {"SENTRY_DSN", "USE_S3", "ADMIN_URL"}

\* the set c carries the stated default of binding n wherever it carries
\* a value of that binding at all
DefaultIn(c, n) ==
    LET db == c.DATABASES.default
    IN  CASE n = "SECRET_KEY" ->
                c.SECRET_KEY = "your-super-secret-key-change-this-in-production"
          [] n = "DEBUG" -> c.DEBUG = FALSE
          [] n = "ALLOWED_HOSTS" -> c.ALLOWED_HOSTS = <<"localhost", "127.0.0.1">>
          [] n = "DATABASE_HOST" -> Has(db, "HOST") => db.HOST = "localhost"
          [] n = "DATABASE_PORT" -> Has(db, "PORT") => db.PORT = "5432"
          [] n = "DATABASE_NAME" ->
                db.NAME \in {"primepass_db", "test_primepass", ":memory:"}
          [] n = "DATABASE_USER" -> Has(db, "USER") => db.USER = "primepass_user"
          [] n = "DATABASE_PASSWORD" ->
                Has(db, "PASSWORD") => db.PASSWORD = "primepass_password"
          [] n = "REDIS_URL" ->
                /\ Has(c.CACHES.default, "LOCATION") =>
                      c.CACHES.default.LOCATION = "redis://localhost:6379/0"
                /\ c.CELERY_BROKER_URL = "redis://localhost:6379/0"
                /\ c.CHANNEL_LAYERS.default.CONFIG.hosts
                      = <<"redis://localhost:6379/0">>
          [] n = "CACHE_TTL" ->
                Has(c.CACHES.default, "TIMEOUT") => c.CACHES.default.TIMEOUT = 3600
          [] n = "JWT_ACCESS_TOKEN_LIFETIME" ->
                c.SIMPLE_JWT.ACCESS_TOKEN_LIFETIME = 3600
          [] n = "JWT_REFRESH_TOKEN_LIFETIME" ->
                c.SIMPLE_JWT.REFRESH_TOKEN_LIFETIME = 86400
          [] n = "CORS_ALLOWED_ORIGINS" ->
                c.CORS_ALLOWED_ORIGINS
                    = <<"http://localhost:3000", "http://127.0.0.1:3000">>
          [] n = "SENTRY_DSN" -> Has(c, "SENTRY_DSN") => c.SENTRY_DSN = ""
          [] n = "USE_S3" -> ~Has(c, "AWS_STORAGE_BUCKET_NAME")
          [] n = "ADMIN_URL" -> Has(c, "ADMIN_URL") => c.ADMIN_URL = "admin/"

S3Required ==
    {"AWS_ACCESS_KEY_ID", "AWS_SECRET_ACCESS_KEY", "AWS_STORAGE_BUCKET_NAME"}

S3Storage == "storages.backends.s3boto3.S3Boto3Storage"

\* C11: under production with USE_S3 true and one of the three AWS_*
\* bindings absent the start never gets past the storage section and nothing
\* is resolved; a resolved set with the S3 storage backend has all three
\* keys (and comes from production with USE_S3 true); with USE_S3 false or
\* absent no start aborts on one of the three and, once the storage section
\* is passed, the storage backend is the base one.
C11_S3Consistency ==
    /\ (Overlay = "production" /\ UseS3(env) /\ ~(S3Required \subseteq DOMAIN env)) =>
          /\ pc \notin PastSection("prod_storage")
          /\ ~Resolved
          /\ (pc = "aborted" /\ Has(settings, "SESSION_COOKIE_SAMESITE")
                /\ Has(settings.DATABASES.default, "CONN_MAX_AGE")) =>
                (error.kind = "UndefinedValueError" /\ error.key \in S3Required)
    /\ (Resolved /\ conf.STATICFILES_STORAGE = S3Storage) =>
          /\ S3Required \subseteq DOMAIN conf
          /\ conf.DEFAULT_FILE_STORAGE = S3Storage
          /\ Overlay = "production"
          /\ UseS3(env)
    /\ ~UseS3(env) =>
          /\ pc = "aborted" => error.key \notin S3Required
          /\ S3Required \cap DOMAIN settings = {}
          /\ Has(settings, "STATICFILES_STORAGE") =>
                settings.STATICFILES_STORAGE
                    = "whitenoise.storage.CompressedManifestStaticFilesStorage"
          /\ (Resolved /\ Overlay = "production") =>
                /\ ~Has(conf, "DEFAULT_FILE_STORAGE")
                /\ conf.STATICFILES_STORAGE = baseSet.STATICFILES_STORAGE

\* production with USE_S3 true aborted in the storage section on the
\* missing secret key, after the security and database sections
C11_Witness ==
    /\ Overlay = "production"
    /\ UseS3(env)
    /\ ~Has(env, "AWS_SECRET_ACCESS_KEY")
    /\ pc = "aborted"
    /\ error = [kind |-> "UndefinedValueError", key |-> "AWS_SECRET_ACCESS_KEY"]
    /\ Has(settings.DATABASES.default, "CONN_MAX_AGE")
    /\ ~Has(settings, "AWS_ACCESS_KEY_ID")
    /\ ~Resolved

\* C12: the monitoring SDK is initialized only once the whole
\* ConfigurationSet has been resolved, and there is no start in which the
\* SDK has been initialized and resolution aborts afterwards.
C12_Original == sentryInit => (Resolved /\ pc # "aborted")

\* the table is the declared one: four entries with unique identifiers in
\* declaration order, their cadences, and a handler on all but the first
BeatTableDeclared ==
    /\ Len(beat_schedule) = 4
    /\ [i \in 1..4 |-> beat_schedule[i].name]
          = <<"cleanup-expired-tokens", "send-event-reminders",
              "update-event-analytics", "cleanup-old-notifications">>
    /\ \A i, j \in 1..4 : beat_schedule[i].name = beat_schedule[j].name => i = j
    /\ [i \in 1..4 |-> beat_schedule[i].entry.schedule] = <<3600, 1800, 900, 86400>>
    /\ \A i \in 1..4 : beat_schedule[i].entry.schedule > 0
    /\ {i \in 1..4 : ~Has(beat_schedule[i].entry, "task")} = {1}
    /\ [i \in 2..4 |-> beat_schedule[i].entry.task]
          = [i \in 2..4 |->
                <<"", "apps.events.tasks.send_event_reminders",
                  "apps.analytics.tasks.update_event_analytics",
                  "apps.notifications.tasks.cleanup_old_notifications">>[i]]

\* C13: once defined, the periodic job table is the declared one (four
\* uniquely named entries in declaration order with cadences 3600, 1800,
\* 900 and 86400, only cleanup-expired-tokens without a handler), under
\* either overlay and every environment; it is defined in every start that
\* reaches the route table, and a defined table never changes.
C13_BeatTable ==
    /\ [](beat_schedule # <<>> => BeatTableDeclared)
    /\ [](pc \in {"urls", "ready"} => beat_schedule # <<>>)
    /\ [][beat_schedule # <<>> => beat_schedule' = beat_schedule]_vars

\* a production start has come up with the table defined
C13_Witness ==
    /\ pc = "ready"
    /\ Overlay = "production"
    /\ Len(beat_schedule) = 4
    /\ ~Has(beat_schedule[1].entry, "task")
    /\ beat_schedule[4].entry.schedule = 86400

\* the start has executed the Sentry section of production.py
PastSentry == Has(settings, "SENTRY_DSN")

\* C15: the SDK is initialized only under production with SENTRY_DSN bound
\* to a non-empty string, and in every production start that has executed
\* the Sentry section (so in every resolved production set) it is
\* initialized exactly when SENTRY_DSN is bound and non-empty; under
\* development it is never initialized.
C15_SentryGate ==
    /\ sentryInit =>
          (Overlay = "production" /\ Has(env, "SENTRY_DSN") /\ env["SENTRY_DSN"] # "")
    /\ (Overlay = "production" /\ (PastSentry \/ Resolved)) =>
          (sentryInit <=> (Has(env, "SENTRY_DSN") /\ env["SENTRY_DSN"] # ""))
    /\ Overlay = "development" => ~sentryInit

\* production came up with the SDK initialized
C15_Witness ==
    /\ Overlay = "production"
    /\ pc = "ready"
    /\ Has(env, "SENTRY_DSN")
    /\ env["SENTRY_DSN"] # ""
    /\ sentryInit

\* path p is a prefix of path q, segment by segment
IsPrefix(p, q) == Len(p) <= Len(q) /\ SubSeq(q, 1, Len(p)) = p

\* the route tables of a start that has assembled them
RouteTables == {urlpatterns, api_v1_patterns}

\* C14 as stated: in the top-level and in the nested table no route is
\* preceded by a route whose path is a proper prefix of its own.
C14_Original ==
    pc = "ready" =>
        \A t \in RouteTables : \A i, j \in DOMAIN t :
            i < j => ~(IsPrefix(t[i].route, t[j].route) /\ t[i].route # t[j].route)

\* route a, declared first, takes every request route b could match: a
\* path() route matches the whole remaining path only, an include() or a
\* static() route matches every path below its prefix
Shadows(a, b) ==
    IF a.kind = "path" THEN b.kind = "path" /\ a.route = b.route
    ELSE IsPrefix(a.route, b.route)

\* the routes urls.py declares with path(), as opposed to the file-serving
\* routes static() builds from MEDIA_URL and STATIC_URL
Declared(r) == r.kind \in {"path", "include"}

\* C14 amended: in the top-level and in the nested table no declared route
\* is preceded by a route that shadows it, where an exact-match route
\* shadows only a route with the same path and a prefix-matching route
\* (include or file-serving) shadows every route below its prefix; the
\* file-serving routes come after every declared route.  (An exact-match
\* route may precede a longer one: 'auth/token/' precedes
\* 'auth/token/refresh/' and 'auth/token/verify/'.)
C14_NoRouteShadowed ==
    pc = "ready" =>
        \A t \in RouteTables : \A i, j \in DOMAIN t :
            i < j =>
                /\ Declared(t[j]) => (Declared(t[i]) /\ ~Shadows(t[i], t[j]))
                /\ t[i].kind = "static" => t[j].kind = "static"

\* a development start assembled the table with both file-serving routes,
\* the media one below the prefix of the nested API table
C14_Witness ==
    /\ pc = "ready"
    /\ Overlay = "development"
    /\ Len(urlpatterns) = 9
    /\ urlpatterns[8] = Route("static", <<"api", "v1", "media">>, "serve", "")
    /\ IsPrefix(urlpatterns[2].route, urlpatterns[8].route)
    /\ IsPrefix(api_v1_patterns[1].route, api_v1_patterns[2].route)

UpdateCache == "django.middleware.cache.UpdateCacheMiddleware"

FetchFromCache == "django.middleware.cache.FetchFromCacheMiddleware"

\* the index of entry x in list l (0 when it is not in l)
IndexOf(l, x) == IF \E i \in DOMAIN l : l[i] = x
                 THEN CHOOSE i \in DOMAIN l : l[i] = x ELSE 0

\* the entries of l that are base middleware, in the order of l
BaseEntries(l) == SelectSeq(l, LAMBDA x : \E i \in DOMAIN BASE_MIDDLEWARE :
                                            BASE_MIDDLEWARE[i] = x)

\* C16: in every resolved set the ten base middleware entries are all
\* present once and in base order; under development the list is the two
\* tool middleware followed by the base list; under production it is the
\* base list with UpdateCacheMiddleware as second entry (after
\* SecurityMiddleware, before WhiteNoiseMiddleware) and
\* FetchFromCacheMiddleware as last entry.
C16_MiddlewareOrder ==
    (Resolved /\ Overlay \in {"development", "production"}) =>
        LET mw == conf.MIDDLEWARE
        IN  /\ Len(BASE_MIDDLEWARE) = 10
            /\ BaseEntries(mw) = BASE_MIDDLEWARE
            /\ \A i, j \in DOMAIN mw : mw[i] = mw[j] => i = j
            /\ Overlay = "development" =>
                  mw = <<"debug_toolbar.middleware.DebugToolbarMiddleware",
                         "silk.middleware.SilkyMiddleware">> \o BASE_MIDDLEWARE
            /\ Overlay = "production" =>
                  /\ Len(mw) = 12
                  /\ mw[1] = "django.middleware.security.SecurityMiddleware"
                  /\ mw[2] = UpdateCache
                  /\ mw[3] = "whitenoise.middleware.WhiteNoiseMiddleware"
                  /\ mw[12] = FetchFromCache
                  /\ IndexOf(mw, UpdateCache) < IndexOf(mw, FetchFromCache)

\* a production set was resolved with the two cache middleware in place
C16_Witness ==
    /\ Resolved
    /\ Overlay = "production"
    /\ conf.MIDDLEWARE[2] = UpdateCache
    /\ conf.MIDDLEWARE[Len(conf.MIDDLEWARE)] = FetchFromCache

\* the binding's value, or d when it is absent
Bound(n, d) == IF Has(env, n) THEN env[n] ELSE d

C18_TestOverrides ==
    (Resolved /\ Overlay = "development") =>
        IF testMode
        THEN /\ conf.DATABASES =
                    [default |-> [ENGINE |-> "django.db.backends.sqlite3",
                                  NAME |-> ":memory:"]]
             /\ conf.CACHES =
                    [default |->
                        [BACKEND |-> "django.core.cache.backends.dummy.DummyCache"]]
             /\ conf.CELERY_TASK_ALWAYS_EAGER = TRUE
             /\ conf.CELERY_TASK_EAGER_PROPAGATES = TRUE
        ELSE conf.CELERY_TASK_ALWAYS_EAGER = BoundTrue("CELERY_EAGER")

\* a test run inside Docker with CELERY_EAGER=false bound
C18_Witness ==
    /\ Resolved
    /\ Overlay = "development"
    /\ testMode
    /\ dockerenv
    /\ Has(env, "CELERY_EAGER")
    /\ env["CELERY_EAGER"] = "false"
    /\ conf.CELERY_TASK_ALWAYS_EAGER = TRUE
    /\ DOMAIN conf.DATABASES.default = {"ENGINE", "NAME"}

\* x is an entry of list l
InList(l, x) == \E i \in DOMAIN l : l[i] = x

\* the set has the apps (respectively the middleware) of both tools
ToolApps(c) ==
    InList(c.INSTALLED_APPS, "debug_toolbar") /\ InList(c.INSTALLED_APPS, "silk")

ToolMiddleware(c) ==
    /\ InList(c.MIDDLEWARE, "debug_toolbar.middleware.DebugToolbarMiddleware")
    /\ InList(c.MIDDLEWARE, "silk.middleware.SilkyMiddleware")

\* C19: under either overlay and every environment, an assembled route
\* table has both the '__debug__/' and the 'silk/' route exactly when the
\* resolved set has both tools' apps and middleware, and it has neither
\* route when the set has none of them; the set has the apps of a tool
\* exactly when it has its middleware.
C19_ToolingConsistent ==
    /\ (Resolved /\ Overlay \in {"development", "production"}) =>
          /\ ToolApps(conf) <=> ToolMiddleware(conf)
          /\ InList(conf.INSTALLED_APPS, "debug_toolbar")
                <=> InList(conf.INSTALLED_APPS, "silk")
          /\ InList(conf.MIDDLEWARE, "silk.middleware.SilkyMiddleware")
                <=> InList(conf.INSTALLED_APPS, "silk")
    /\ (pc = "ready" /\ Overlay \in {"development", "production"}) =>
          IF ToolApps(conf) /\ ToolMiddleware(conf)
          THEN {r.route : r \in Routes(urlpatterns, IsDebugRoute)}
                  = {<<"__debug__">>, <<"silk">>}
          ELSE Routes(urlpatterns, IsDebugRoute) = {}

\* a development start with tools, middleware and both routes
C19_Witness ==
    /\ pc = "ready"
    /\ Overlay = "development"
    /\ ToolApps(conf)
    /\ ToolMiddleware(conf)
    /\ urlpatterns[6].route = <<"__debug__">>
    /\ urlpatterns[7].route = <<"silk">>

=============================================================================
